---- MODULE Spec2Model ----
(***************************************************************************)
(* Repo_Flattener: the classify -> assemble -> export pipeline of          *)
(* flatten_repo.py (collect_files, decide_file, looks_binary, build_html,  *)
(* generate_cxml_text) as a state machine over small directory trees.      *)
(*                                                                         *)
(* Strings are sequences of one-character strings, so that the substring,  *)
(* prefix, suffix, comparison and slug operations of the source are        *)
(* computed character by character.  A path is the sequence of its         *)
(* components, each a string.                                              *)
(***************************************************************************)
EXTENDS Integers, Sequences, FiniteSets, TLC

VARIABLES
    fs,         \* the materialized tree: path -> attributes of the file there
    max_bytes,  \* the size threshold handed to collect_files
    tree_env,   \* what try_tree_command meets: the tree utility runs ("utility"), it
                \* does not and the directories can be listed ("fallback"), it does
                \* not and listing a directory raises ("broken")
    pc,         \* position of the pipeline: "start", "collected", "built", or
                \* "collect_failed", "build_failed" when the step raised
    infos,      \* List[FileInfo] returned by collect_files
    doc,        \* the parts of the artifact build_html assembles
    prev,       \* what the previous run on the same tree produced
    run,        \* number of the current run
    view,       \* the artifact opened in a browser: the display state of its two views
    bh,         \* a size handed to bytes_human on its own, and what it printed
    processing_status,  \* the web application's dict: task id -> status
    thread,     \* per task id: where its background thread is in process_repo, and
                \* its tmpdir (0: None)
    client,     \* per task id: whether POST /process has answered with it, whether
                \* a GET /status after that has answered 'Task not found', whether
                \* cleanup removed it
    temp,       \* the temporary directories that exist
    output,     \* the artifact files that exist, each with the invocation that wrote it
    cli         \* per command-line invocation: where it is in main, its output
                \* path and its tmpdir

\* the variables of the web application and of the command-line runs
webVars == <<processing_status, thread, client, temp, output, cli>>

\* the variables no step of the pipeline touches
outsideVars == <<bh, webVars>>

\* the variables of one pipeline run and of the page it produces
pipeVars == <<fs, max_bytes, tree_env, pc, infos, doc, prev, run, view>>

vars == <<fs, max_bytes, tree_env, pc, infos, doc, prev, run, view, outsideVars>>

----------------------------------------------------------------------------
(* Bounds and program constants *)

MaxFiles == 3

MaxRuns == 2

MaxClicks == 3

\* web tasks, and command-line invocations, that are started
MaxTasks == 2
MaxCli == 2

\* sizes are taken up to this far on either side of the sizes where
\* bytes_human changes unit or that the specification quotes
Near == 30

MAX_DEFAULT_BYTES == 51200

ChunkSize == 8192

----------------------------------------------------------------------------
(* Characters and strings.  The quote characters, the backtick and the      *)
(* backslash are written "DQUOTE", "SQUOTE", "BACKTICK" and "BACKSLASH".     *)

Ascii ==
    << " ", "!", "DQUOTE", "#", "$", "%", "&", "SQUOTE", "(", ")", "*", "+", ",", "-",
       ".", "/", "0", "1", "2", "3", "4", "5", "6", "7", "8", "9", ":", ";",
       "<", "=", ">", "?", "@", "A", "B", "C", "D", "E", "F", "G", "H", "I",
       "J", "K", "L", "M", "N", "O", "P", "Q", "R", "S", "T", "U", "V", "W",
       "X", "Y", "Z", "[", "BACKSLASH", "]", "^", "_", "BACKTICK", "a", "b", "c", "d", "e",
       "f", "g", "h", "i", "j", "k", "l", "m", "n", "o", "p", "q", "r", "s",
       "t", "u", "v", "w", "x", "y", "z", "{", "|", "}", "~" >>

Chars == { Ascii[i] : i \in 1..Len(Ascii) }

\* code point of a character
OrdTable == [ c \in Chars |-> 31 + (CHOOSE i \in 1..Len(Ascii) : Ascii[i] = c) ]

Ord(c) == OrdTable[c]

\* str.isalnum() of one character
IsAlnum(c) ==
    \/ Ord(c) >= 48 /\ Ord(c) <= 57
    \/ Ord(c) >= 65 /\ Ord(c) <= 90
    \/ Ord(c) >= 97 /\ Ord(c) <= 122

LowerChar(c) == IF Ord(c) >= 65 /\ Ord(c) <= 90 THEN Ascii[Ord(c) + 32 - 31] ELSE c

\* str.lower()
Lower(s) == [ i \in 1..Len(s) |-> LowerChar(s[i]) ]

\* s < t for Python strings: code point by code point, a proper prefix first
RECURSIVE StrLess(_, _)
StrLess(s, t) ==
    IF t = << >> THEN FALSE
    ELSE IF s = << >> THEN TRUE
    ELSE IF Head(s) # Head(t) THEN Ord(Head(s)) < Ord(Head(t))
    ELSE StrLess(Tail(s), Tail(t))

\* s.startswith(pre)
StartsWith(s, pre) ==
    /\ Len(pre) <= Len(s)
    /\ SubSeq(s, 1, Len(pre)) = pre

\* sub in s
Contains(s, sub) ==
    \E i \in 1..(Len(s) - Len(sub) + 1) : SubSeq(s, i, i + Len(sub) - 1) = sub

\* "/".join(parts)
RECURSIVE Join(_)
Join(parts) ==
    IF parts = << >> THEN << >>
    ELSE IF Len(parts) = 1 THEN parts[1]
    ELSE parts[1] \o <<"/">> \o Join(Tail(parts))

\* last index of character c in s, 0 when absent (str.rfind, 1-based)
RFind(s, c) ==
    IF \E i \in 1..Len(s) : s[i] = c
    THEN CHOOSE i \in 1..Len(s) : s[i] = c /\ \A j \in (i+1)..Len(s) : s[j] # c
    ELSE 0

\* PurePath.suffix of a file name: from the last dot, unless the dot leads or ends the name
Suffix(name) ==
    LET i == RFind(name, ".")
    IN IF 1 < i /\ i < Len(name) THEN SubSeq(name, i, Len(name)) ELSE << >>

\* html.escape of one character (quote=True)
EscapeChar(c) ==
    CASE c = "&"  -> <<"&", "a", "m", "p", ";">>
      [] c = "<"  -> <<"&", "l", "t", ";">>
      [] c = ">"  -> <<"&", "g", "t", ";">>
      [] c = "DQUOTE" -> <<"&", "q", "u", "o", "t", ";">>
      [] c = "SQUOTE" -> <<"&", "#", "x", "2", "7", ";">>
      [] OTHER    -> <<c>>

RECURSIVE html_escape(_)
html_escape(s) ==
    IF s = << >> THEN << >> ELSE EscapeChar(Head(s)) \o html_escape(Tail(s))

----------------------------------------------------------------------------
(* Configuration *)

BINARY_EXTENSIONS ==
    { <<".","p","n","g">>, <<".","j","p","g">>, <<".","j","p","e","g">>, <<".","g","i","f">>,
      <<".","w","e","b","p">>, <<".","b","m","p">>, <<".","s","v","g">>, <<".","i","c","o">>,
      <<".","p","d","f">>, <<".","z","i","p">>, <<".","t","a","r">>, <<".","g","z">>,
      <<".","b","z","2">>, <<".","x","z">>, <<".","7","z">>, <<".","r","a","r">>,
      <<".","m","p","3">>, <<".","m","p","4">>, <<".","m","o","v">>, <<".","a","v","i">>,
      <<".","m","k","v">>, <<".","w","a","v">>, <<".","o","g","g">>, <<".","f","l","a","c">>,
      <<".","t","t","f">>, <<".","o","t","f">>, <<".","e","o","t">>, <<".","w","o","f","f">>,
      <<".","w","o","f","f","2">>, <<".","s","o">>, <<".","d","l","l">>, <<".","d","y","l","i","b">>,
      <<".","c","l","a","s","s">>, <<".","j","a","r">>, <<".","e","x","e">>, <<".","b","i","n">> }

Reasons == {"ok", "binary", "too_large", "ignored"}

----------------------------------------------------------------------------
(* Directory trees *)

DotGit == <<".", "g", "i", "t">>

\* the relative paths a tree may hold a file at, each a sequence of components
PathUniverse ==
    { << <<"a", "-", "b">> >>,                                  \* a-b
      << <<"a">>, <<"b">> >>,                                    \* a/b
      << <<"x", ".", "P", "N", "G">> >>,                         \* x.PNG
      << DotGit, <<"c">> >>,                                     \* .git/c
      << <<"a">>, DotGit >>,                                     \* a/.git (a file)
      << <<"a">>, DotGit, <<"c">> >>,                            \* a/.git/c
      << <<".", "g", "i", "t", "h", "u", "b">>, <<"c">> >> }     \* .github/c

IsProperPrefix(p, q) == Len(p) < Len(q) /\ SubSeq(q, 1, Len(p)) = p

\* no file sits where another file needs a directory
Consistent(D) == \A p \in D, q \in D : ~IsProperPrefix(p, q)

\* the directories a set of files implies
DirsOf(D) == UNION { { SubSeq(p, 1, k) : k \in 1..(Len(p) - 1) } : p \in D }

\* A regular file: its size, the offset of its first NUL byte and of its first
\* byte that is not valid UTF-8 (-1: none), whether open() succeeds, whether
\* it is deleted between the walk's is_file() and decide_file's stat(), and
\* whether stat()/lstat() of it raises PermissionError (its directory can be
\* listed but not searched).
RegularFiles(sizes, offsets, readables, vanisheds, denieds) ==
    { [kind |-> "file", size |-> sz, nul |-> n, bad |-> b, readable |-> r, vanished |-> v,
       denied |-> d] :
        sz \in sizes, n \in offsets, b \in offsets, r \in readables, v \in vanisheds,
        d \in denieds }

WellFormed(f) ==
    /\ f.nul < f.size
    /\ f.bad < f.size
    /\ f.nul = -1 \/ f.nul # f.bad
    /\ f.vanished => ~f.readable
    /\ f.denied => (~f.readable /\ ~f.vanished /\ f.nul = -1 /\ f.bad = -1)

Symlink ==
    [kind |-> "symlink", size |-> 0, nul |-> -1, bad |-> -1, readable |-> TRUE,
     vanished |-> FALSE, denied |-> FALSE]

\* every shape of file, for trees of one file
AllShapes ==
    { f \in RegularFiles({0, 1, ChunkSize, ChunkSize + 1, MAX_DEFAULT_BYTES, MAX_DEFAULT_BYTES + 1},
                         {-1, 0, ChunkSize - 1, ChunkSize}, {TRUE, FALSE}, {TRUE, FALSE},
                         {TRUE, FALSE}) :
        WellFormed(f) }
    \cup {Symlink}

\* the shapes that trees of several files are built from
FewShapes ==
    { f \in RegularFiles({1}, {-1, 0}, {TRUE}, {FALSE}, {FALSE}) : WellFormed(f) /\ f.bad = -1 }
    \cup RegularFiles({MAX_DEFAULT_BYTES + 1}, {-1}, {TRUE}, {FALSE}, {FALSE})
    \cup {Symlink}

AllThresholds == {0, 1, ChunkSize, MAX_DEFAULT_BYTES}

FewThresholds == {0, MAX_DEFAULT_BYTES}

\* Path.is_symlink() and Path.is_file() raise what lstat()/stat() raises, unless
\* the error says the path does not exist
StatRaises(p) == p \in DOMAIN fs /\ fs[p].denied

\* Path.is_symlink(), Path.is_file() during the walk
is_symlink(p) == p \in DOMAIN fs /\ fs[p].kind = "symlink"

is_file(p) == p \in DOMAIN fs /\ fs[p].kind = "file"

\* what repo_root.rglob("*") yields: every file, link and directory below the root
Entries == DOMAIN fs \cup DirsOf(DOMAIN fs)

RECURSIVE SeqOf(_)
SeqOf(S) == IF S = {} THEN << >> ELSE LET x == CHOOSE y \in S : TRUE IN <<x>> \o SeqOf(S \ {x})

Reverse(s) == [ i \in 1..Len(s) |-> s[Len(s) + 1 - i] ]

Rotate(s, k) == [ i \in 1..Len(s) |-> s[((i + k - 1) % Len(s)) + 1] ]

\* orders in which the file system may enumerate the entries
Enumerations ==
    LET base == SeqOf(Entries)
    IN IF base = << >> THEN { << >> }
       ELSE { Rotate(base, k) : k \in 0..(Len(base) - 1) }
            \cup { Rotate(Reverse(base), k) : k \in 0..(Len(base) - 1) }

----------------------------------------------------------------------------
(* File Classifier *)

\* path.stat().st_size, 0 on FileNotFoundError
StatSize(path) == IF fs[path].vanished THEN 0 ELSE fs[path].size

\* f.read(8192): the number of bytes read
ChunkLen(path) == IF fs[path].size < ChunkSize THEN fs[path].size ELSE ChunkSize

\* looks_binary without the NUL test
looks_binary_NoNulCheck(path) ==
    LET ext == Lower(Suffix(path[Len(path)]))
        f   == fs[path]
    IN IF ext \in BINARY_EXTENSIONS THEN TRUE
       ELSE IF f.vanished \/ ~f.readable THEN TRUE
       ELSE IF f.bad >= 0 /\ f.bad < ChunkLen(path) THEN TRUE
       ELSE FALSE

looks_binary(path) ==
    LET ext == Lower(Suffix(path[Len(path)]))
        f   == fs[path]
    IN IF ext \in BINARY_EXTENSIONS THEN TRUE
       ELSE IF f.vanished \/ ~f.readable THEN TRUE      \* open() raised
       ELSE IF f.nul >= 0 /\ f.nul < ChunkLen(path) THEN TRUE
       ELSE IF f.bad >= 0 /\ f.bad < ChunkLen(path) THEN TRUE
       ELSE FALSE

FileInfo(path, rel, size, include, reason) ==
    [path |-> path, rel |-> rel, size |-> size,
     decision |-> [include |-> include, reason |-> reason]]

\* the test on rel that marks version-control metadata
IsVcsPath(rel) ==
    \/ Contains(<<"/">> \o rel \o <<"/">>, <<"/", ".", "g", "i", "t", "/">>)
    \/ StartsWith(rel, <<".", "g", "i", "t", "/">>)

\* decide_file marking a binary file as included
decide_file_IncludesBinary(path, maxb) ==
    LET rel  == Join(path)
        size == StatSize(path)
    IN IF IsVcsPath(rel) THEN FileInfo(path, rel, size, FALSE, "ignored")
       ELSE IF size > maxb THEN FileInfo(path, rel, size, FALSE, "too_large")
       ELSE IF looks_binary(path) THEN FileInfo(path, rel, size, TRUE, "binary")
       ELSE FileInfo(path, rel, size, TRUE, "ok")

\* decide_file testing the size before the version-control path
decide_file_SizeFirst(path, maxb) ==
    LET rel  == Join(path)
        size == StatSize(path)
    IN IF size > maxb THEN FileInfo(path, rel, size, FALSE, "too_large")
       ELSE IF IsVcsPath(rel) THEN FileInfo(path, rel, size, FALSE, "ignored")
       ELSE IF looks_binary(path) THEN FileInfo(path, rel, size, FALSE, "binary")
       ELSE FileInfo(path, rel, size, TRUE, "ok")

\* decide_file with size >= max_bytes as the too_large test
decide_file_AtLeast(path, maxb) ==
    LET rel  == Join(path)
        size == StatSize(path)
    IN IF IsVcsPath(rel) THEN FileInfo(path, rel, size, FALSE, "ignored")
       ELSE IF size >= maxb THEN FileInfo(path, rel, size, FALSE, "too_large")
       ELSE IF looks_binary(path) THEN FileInfo(path, rel, size, FALSE, "binary")
       ELSE FileInfo(path, rel, size, TRUE, "ok")

decide_file(path, maxb) ==
    LET rel  == Join(path)
        size == StatSize(path)
    IN IF IsVcsPath(rel) THEN FileInfo(path, rel, size, FALSE, "ignored")
       ELSE IF size > maxb THEN FileInfo(path, rel, size, FALSE, "too_large")
       ELSE IF looks_binary(path) THEN FileInfo(path, rel, size, FALSE, "binary")
       ELSE FileInfo(path, rel, size, TRUE, "ok")

\* paths compared as their slash-joined strings
PathLess_ByString(p, q) == StrLess(Join(p), Join(q))

\* p < q for two paths: their component lists compared, component by component
RECURSIVE PathLess(_, _)
PathLess(p, q) ==
    IF q = << >> THEN FALSE
    ELSE IF p = << >> THEN TRUE
    ELSE IF Head(p) # Head(q) THEN StrLess(Head(p), Head(q))
    ELSE PathLess(Tail(p), Tail(q))

RECURSIVE Insert(_, _)
Insert(x, s) ==
    IF s = << >> THEN <<x>>
    ELSE IF PathLess(x, Head(s)) THEN <<x>> \o s
    ELSE <<Head(s)>> \o Insert(x, Tail(s))

\* sorted(paths)
RECURSIVE sorted(_)
sorted(s) == IF s = << >> THEN << >> ELSE Insert(s[Len(s)], sorted(SubSeq(s, 1, Len(s) - 1)))

RECURSIVE Classify(_, _)
Classify(paths, maxb) ==
    IF paths = << >> THEN << >>
    ELSE LET p == Head(paths)
             rest == Classify(Tail(paths), maxb)
         IN IF is_symlink(p) THEN rest
            ELSE IF is_file(p) THEN <<decide_file(p, maxb)>> \o rest
            ELSE rest

\* collect_files without the sort
collect_files_Unsorted(listing, maxb) == Classify(listing, maxb)

\* collect_files on a tree whose entries the file system enumerates as `listing`
collect_files(listing, maxb) == Classify(sorted(listing), maxb)

\* collect_files raises: the loop has no handler around is_symlink(), is_file()
\* and decide_file, which catches FileNotFoundError alone
collect_files_raises(listing) == \E k \in 1..Len(listing) : StatRaises(listing[k])

----------------------------------------------------------------------------
(* Document Assembler and Structured Export Generator *)

Units == <<"B", "KiB", "MiB", "GiB", "TiB">>

RECURSIVE Pow1024(_)
Pow1024(i) == IF i = 0 THEN 1 ELSE 1024 * Pow1024(i - 1)

\* the unit index the while loop of bytes_human stops at (0-based)
RECURSIVE UnitIndex(_, _)
UnitIndex(n, i) ==
    IF n >= Pow1024(i + 1) /\ i < Len(Units) - 1 THEN UnitIndex(n, i + 1) ELSE i

\* num/den cut to an integer
RoundDown(num, den) == num \div den

\* num/den rounded to an integer, ties to even, as "%.1f" rounds an exact binary value
RoundHalfEven(num, den) ==
    LET q == num \div den
        r == num % den
    IN IF 2 * r > den \/ (2 * r = den /\ q % 2 = 1) THEN q + 1 ELSE q

\* bytes_human(n): the printed number (whole part, and the one decimal or -1 for bytes) and unit
bytes_human(n) ==
    LET i == UnitIndex(n, 0)
    IN IF i = 0 THEN [whole |-> n, tenth |-> -1, unit |-> Units[1]]
       ELSE LET t == RoundHalfEven(n * 10, Pow1024(i))
            IN [whole |-> t \div 10, tenth |-> t % 10, unit |-> Units[i + 1]]

slugify(path_str) ==
    [ k \in 1..Len(path_str) |->
        IF IsAlnum(path_str[k]) \/ path_str[k] \in {"-", "_"} THEN path_str[k] ELSE "-" ]

RECURSIVE SelectReason(_, _)
SelectReason(fileinfos, reason) ==
    IF fileinfos = << >> THEN << >>
    ELSE IF Head(fileinfos).decision.reason = reason
         THEN <<Head(fileinfos)>> \o SelectReason(Tail(fileinfos), reason)
         ELSE SelectReason(Tail(fileinfos), reason)

\* [i for i in infos if i.decision.include]
RECURSIVE Rendered(_)
Rendered(fileinfos) ==
    IF fileinfos = << >> THEN << >>
    ELSE IF Head(fileinfos).decision.include
         THEN <<Head(fileinfos)>> \o Rendered(Tail(fileinfos))
         ELSE Rendered(Tail(fileinfos))

RECURSIVE SumSizes(_)
SumSizes(fileinfos) ==
    IF fileinfos = << >> THEN 0 ELSE Head(fileinfos).size + SumSizes(Tail(fileinfos))

\* read_text(path): the file's text, or the failure when the read raises
read_text(path, failing) ==
    IF path \in failing THEN [raised |-> TRUE] ELSE [raised |-> FALSE, text |-> path]

\* generate_cxml_text leaving out the files whose read raises
generate_cxml_text_DropsUnreadable(fileinfos, failing) ==
    LET rendered == Rendered(fileinfos)
        RECURSIVE Readable(_)
        Readable(r) ==
            IF r = << >> THEN << >>
            ELSE IF read_text(Head(r).path, failing).raised THEN Readable(Tail(r))
            ELSE <<Head(r)>> \o Readable(Tail(r))
        kept == Readable(rendered)
    IN [ k \in 1..Len(kept) |->
           [index |-> k, source |-> kept[k].rel, content |-> "text"] ]

\* generate_cxml_text: one <document> per included file; `failing` are the
\* files whose read raises
generate_cxml_text(fileinfos, failing) ==
    LET rendered == Rendered(fileinfos)
    IN [ k \in 1..Len(rendered) |->
           [index   |-> k,
            source  |-> rendered[k].rel,
            content |-> IF read_text(rendered[k].path, failing).raised
                        THEN "Failed to read"
                        ELSE "text"] ]

FilePrefix == <<"f", "i", "l", "e", "-">>

\* the <li> of one included file in the table of contents
TocItem(i) ==
    [href |-> <<"#">> \o FilePrefix \o slugify(i.rel),
     text |-> html_escape(i.rel),
     size |-> bytes_human(i.size)]

\* the <section> of one included file
Section(i, failing) ==
    [id   |-> FilePrefix \o slugify(i.rel),
     body |-> IF read_text(i.path, failing).raised THEN "Failed to render" ELSE "rendered"]

\* render_skip_list: no markup for an empty list, else one <details> group
render_skip_list(title, items) ==
    IF items = << >> THEN << >>
    ELSE << [title |-> title,
             count |-> Len(items),
             lis   |-> [ k \in 1..Len(items) |->
                          [code |-> html_escape(items[k].rel),
                           size |-> bytes_human(items[k].size)] ]] >>

\* skipped_html with a group for the ignored files too
skipped_html_WithIgnored(skipped_binary, skipped_large, skipped_ignored) ==
    render_skip_list("Skipped binaries", skipped_binary)
    \o render_skip_list("Skipped large files", skipped_large)
    \o render_skip_list("Ignored files", skipped_ignored)

\* skipped_html: the skip-list groups of the artifact
skipped_html(skipped_binary, skipped_large, skipped_ignored) ==
    render_skip_list("Skipped binaries", skipped_binary)
    \o render_skip_list("Skipped large files", skipped_large)

\* the Skipped stat counting the ignored files too
SkippedStat_CountsIgnored(skipped_binary, skipped_large, skipped_ignored) ==
    Len(skipped_binary) + Len(skipped_large) + Len(skipped_ignored)

\* the Skipped stat
SkippedStat(skipped_binary, skipped_large, skipped_ignored) ==
    Len(skipped_binary) + Len(skipped_large)

\* the name of the directory the repository is cloned into
RootName == <<"r", "e", "p", "o">>

\* dir_path.iterdir(): the entries one level below a directory
iterdir(d) == { e \in Entries : Len(e) = Len(d) + 1 /\ SubSeq(e, 1, Len(d)) = d }

\* e.is_dir()
is_dir(e) == e \in DirsOf(DOMAIN fs)

\* e.name
Name(e) == e[Len(e)]

\* the sort key comparing the names as they are spelled
TreeKeyLess_CaseSensitive(e1, e2) ==
    IF is_dir(e1) # is_dir(e2) THEN is_dir(e1)
    ELSE StrLess(Name(e1), Name(e2))

\* key=lambda e: (not e.is_dir(), e.name.lower()), compared as Python compares
\* tuples: False sorts before True
TreeKeyLess(e1, e2) ==
    IF is_dir(e1) # is_dir(e2) THEN is_dir(e1)
    ELSE StrLess(Lower(Name(e1)), Lower(Name(e2)))

\* entries.sort(key=...) of a directory's entries
RECURSIVE SortEntries(_)
SortEntries(S) ==
    IF S = {} THEN << >>
    ELSE LET first == CHOOSE x \in S : \A y \in S \ {x} : TreeKeyLess(x, y)
         IN <<first>> \o SortEntries(S \ {first})

\* walk(dir_path, prefix): the lines below one directory.  A line is its
\* prefix (a sequence of "BLANK", four spaces, and "PIPE", a vertical bar and
\* three spaces), its branch ("ELBOW" for the corner connector, "TEE" for the
\* tee connector) and the entry's name.
RECURSIVE walk(_, _)
walk(dir_path, prefix) ==
    LET entries == SortEntries({ e \in iterdir(dir_path) : Name(e) # DotGit })
        RECURSIVE From(_)
        From(i) ==
            IF i > Len(entries) THEN << >>
            ELSE LET e      == entries[i]
                     last   == i = Len(entries)
                     branch == IF last THEN "ELBOW" ELSE "TEE"
                     extension == IF last THEN "BLANK" ELSE "PIPE"
                 IN <<[prefix |-> prefix, branch |-> branch, name |-> Name(e)]>>
                    \o (IF is_dir(e) THEN walk(e, Append(prefix, extension)) ELSE << >>)
                    \o From(i + 1)
    IN From(1)

\* generate_tree_fallback: the root's name, then the walk
generate_tree_fallback ==
    <<[prefix |-> << >>, branch |-> "", name |-> RootName]>> \o walk(<< >>, << >>)

\* try_tree_command: the utility's output, or the fallback's when the utility
\* cannot be run; what the fallback raises is not caught
try_tree_command(env) ==
    IF env = "utility" THEN [raised |-> FALSE, by |-> "tree"]
    ELSE IF env = "fallback"
         THEN [raised |-> FALSE, by |-> "generate_tree_fallback", lines |-> generate_tree_fallback]
         ELSE [raised |-> TRUE]

\* build_html raises: nothing in it catches what try_tree_command raises
build_html_raises(env) == try_tree_command(env).raised

\* build_html: `failS` are the files whose read, highlighting or markdown
\* rendering raises while the sections are rendered, `failC` those whose read
\* raises while the export is generated
build_html(fileinfos, failS, failC) ==
    LET rendered        == Rendered(fileinfos)
        skipped_binary  == SelectReason(fileinfos, "binary")
        skipped_large   == SelectReason(fileinfos, "too_large")
        skipped_ignored == SelectReason(fileinfos, "ignored")
        total_files     == Len(rendered) + Len(skipped_binary)
                           + Len(skipped_large) + Len(skipped_ignored)
    IN [built    |-> TRUE,
        tree     |-> try_tree_command(tree_env),
        stats    |-> [total_files |-> total_files,
                      rendered    |-> Len(rendered),
                      skipped     |-> SkippedStat(skipped_binary, skipped_large, skipped_ignored),
                      total_size  |-> bytes_human(SumSizes(rendered))],
        toc      |-> [ k \in 1..Len(rendered) |-> TocItem(rendered[k]) ],
        sections |-> [ k \in 1..Len(rendered) |-> Section(rendered[k], failS) ],
        skipped  |-> skipped_html(skipped_binary, skipped_large, skipped_ignored),
        cxml     |-> generate_cxml_text(fileinfos, failC)]

----------------------------------------------------------------------------
(* The pipeline *)

NoDoc == [built |-> FALSE]

NoRun == [ran |-> FALSE]

\* no page is open
NoView == [loaded |-> FALSE]

\* no size is being formatted
NoFormat == [called |-> FALSE]

TaskIds == 1..MaxTasks

CliIds == 1..MaxCli

\* the web application just started, no command-line run under way
WebAtRest ==
    /\ processing_status = << >>
    /\ thread = [t \in TaskIds |-> [pc |-> "unstarted", tmpdir |-> 0]]
    /\ client = [t \in TaskIds |-> [returned |-> FALSE, not_found |-> FALSE, removed |-> FALSE]]
    /\ temp = {}
    /\ output = {}
    /\ cli = [i \in CliIds |-> [pc |-> "idle"]]

\* everything outside the pipeline at rest
Outside == bh = NoFormat /\ WebAtRest

Trees(n, shapes) ==
    UNION { [D -> shapes] : D \in { E \in SUBSET PathUniverse : Cardinality(E) <= n /\ Consistent(E) } }

TreeEnvs == {"utility", "fallback", "broken"}

StartEnv(trees, thresholds, envs) ==
    /\ fs \in trees
    /\ max_bytes \in thresholds
    /\ tree_env \in envs
    /\ pc = "start"
    /\ infos = << >>
    /\ doc = NoDoc
    /\ prev = NoRun
    /\ run = 1
    /\ view = NoView
    /\ Outside

\* a start on a machine where the tree utility is installed
Start(trees, thresholds) == StartEnv(trees, thresholds, {"utility"})

\* trees of up to MaxFiles files
Init == Start(Trees(MaxFiles, FewShapes), FewThresholds)

\* trees of one file of any shape
InitFile == Start(Trees(1, AllShapes), AllThresholds)

CollectFiles ==
    /\ pc = "start"
    /\ \E listing \in Enumerations :
          IF collect_files_raises(listing)
          THEN pc' = "collect_failed" /\ infos' = infos
          ELSE pc' = "collected" /\ infos' = collect_files(listing, max_bytes)
    /\ UNCHANGED <<fs, max_bytes, tree_env, doc, prev, run, view, outsideVars>>

\* the files build_html reads
ReadPaths(fileinfos) == { Rendered(fileinfos)[k].path : k \in 1..Len(Rendered(fileinfos)) }

BuildHtml ==
    /\ pc = "collected"
    /\ IF build_html_raises(tree_env)
       THEN pc' = "build_failed" /\ doc' = doc
       ELSE /\ pc' = "built"
            /\ \E failS \in SUBSET ReadPaths(infos), failC \in SUBSET ReadPaths(infos) :
                  doc' = build_html(infos, failS, failC)
    /\ UNCHANGED <<fs, max_bytes, tree_env, infos, prev, run, view, outsideVars>>

\* the same tree and threshold are processed again
Rerun ==
    /\ pc = "built"
    /\ run < MaxRuns
    /\ prev' = [ran |-> TRUE, infos |-> infos, toc |-> doc.toc,
                skipped |-> doc.skipped, stats |-> doc.stats]
    /\ run' = run + 1
    /\ pc' = "start"
    /\ infos' = << >>
    /\ doc' = NoDoc
    /\ view' = NoView
    /\ UNCHANGED <<fs, max_bytes, tree_env, outsideVars>>

Next == CollectFiles \/ BuildHtml \/ Rerun

Spec == Init /\ [][Next]_vars

SpecFile == InitFile /\ [][Next]_vars

----------------------------------------------------------------------------
(* The artifact in the browser: the two views and their toggle *)

ViewIds == {"human-view", "llm-view"}

\* a style sheet without the rule that hides #llm-view
CssDisplay_NoRule(id) == "block"

\* the display the style sheet gives an element: #llm-view { display: none },
\* no rule for #human-view, a div
CssDisplay(id) == IF id = "llm-view" THEN "none" ELSE "block"

\* the computed display: the inline style where a script has set one
Display(id) == IF view.style[id] # "" THEN view.style[id] ELSE CssDisplay(id)

Visible(id) == Display(id) # "none"

\* webbrowser.open: the page loads, no inline style set, the Human button active
OpenPage ==
    /\ pc = "built"
    /\ ~view.loaded
    /\ view' = [loaded |-> TRUE,
                style  |-> [id \in ViewIds |-> ""],
                active |-> "showHumanView",
                clicks |-> 0]
    /\ UNCHANGED <<fs, max_bytes, tree_env, pc, infos, doc, prev, run, outsideVars>>

\* the click handlers of the two toggle buttons
showHumanView ==
    /\ view.loaded
    /\ view' = [view EXCEPT !.style = [@ EXCEPT !["human-view"] = "block", !["llm-view"] = "none"],
                            !.active = "showHumanView",
                            !.clicks = IF @ < MaxClicks THEN @ + 1 ELSE @]
    /\ UNCHANGED <<fs, max_bytes, tree_env, pc, infos, doc, prev, run, outsideVars>>

showLLMView ==
    /\ view.loaded
    /\ view' = [view EXCEPT !.style = [@ EXCEPT !["human-view"] = "none", !["llm-view"] = "block"],
                            !.active = "showLLMView",
                            !.clicks = IF @ < MaxClicks THEN @ + 1 ELSE @]
    /\ UNCHANGED <<fs, max_bytes, tree_env, pc, infos, doc, prev, run, outsideVars>>

\* the relative paths of the trees the tree listing is studied on: names that
\* differ in case, files and directories side by side, nesting, and .git
TreeUniverse ==
    { << <<"B">> >>,                                             \* B
      << <<"a", "-", "b">> >>,                                   \* a-b
      << <<"a">>, <<"b">> >>,                                    \* a/b
      << <<"a">>, <<"C">> >>,                                    \* a/C
      << <<"a">>, DotGit >>,                                     \* a/.git (a file)
      << <<"Z">>, <<"d">> >>,                                    \* Z/d
      << <<"Z">>, <<"e">>, <<"f">> >>,                           \* Z/e/f
      << DotGit, <<"c">> >> }                                    \* .git/c

\* a one-byte text file
TextFile == RegularFiles({1}, {-1}, {TRUE}, {FALSE}, {FALSE})

TreesIn(universe, n, shapes) ==
    UNION { [D -> shapes] : D \in { E \in SUBSET universe : Cardinality(E) <= n /\ Consistent(E) } }

\* trees of up to MaxFiles text files, on a machine of any kind
InitTree == StartEnv(TreesIn(TreeUniverse, MaxFiles, TextFile), {MAX_DEFAULT_BYTES}, TreeEnvs)

SpecTree == InitTree /\ [][Next]_vars

\* the sizes bytes_human is called with on its own
QuotedSizes == {0, 1024, 1536, 1048576}

SizeSamples ==
    UNION { { n \in (b - Near)..(b + Near) : n >= 0 } : b \in QuotedSizes \cup {2 * 1048576} }

\* the pipeline at rest on an empty tree, and a size about to be formatted
InitBytes ==
    /\ fs = << >> /\ max_bytes = MAX_DEFAULT_BYTES /\ tree_env = "utility"
    /\ pc = "start" /\ infos = << >> /\ doc = NoDoc /\ prev = NoRun /\ run = 1
    /\ view = NoView
    /\ bh \in { [called |-> FALSE, n |-> n] : n \in SizeSamples }
    /\ WebAtRest

\* a call of bytes_human
BytesHuman ==
    /\ ~bh.called
    /\ bh' = [called |-> TRUE, n |-> bh.n, out |-> bytes_human(bh.n)]
    /\ UNCHANGED <<pipeVars, webVars>>

SpecBytes == InitBytes /\ [][BytesHuman]_vars

NextView == Next \/ OpenPage \/ showHumanView \/ showLLMView

\* one-file trees, the artifact opened and its views toggled
SpecView == InitFile /\ [][NextView]_vars

----------------------------------------------------------------------------
(* The command-line program *)

\* s.rstrip(c)
RECURSIVE RStrip(_, _)
RStrip(s, c) ==
    IF s # << >> /\ s[Len(s)] = c THEN RStrip(SubSeq(s, 1, Len(s) - 1), c) ELSE s

\* s.endswith(suf)
EndsWith(s, suf) ==
    /\ Len(suf) <= Len(s)
    /\ SubSeq(s, Len(s) - Len(suf) + 1, Len(s)) = suf

\* derive_temp_output_path: <last part of the URL, without .git>.html in the
\* system's temporary directory
derive_temp_output_path(repo_url) ==
    LET stripped  == RStrip(repo_url, "/")
        last      == SubSeq(stripped, RFind(stripped, "/") + 1, Len(stripped))
        repo_name == IF EndsWith(last, DotGit)
                     THEN SubSeq(last, 1, Len(last) - 4) ELSE last
        filename  == IF RFind(stripped, "/") # 0
                     THEN repo_name \o <<".", "h", "t", "m", "l">>
                     ELSE <<"r", "e", "p", "o", ".", "h", "t", "m", "l">>
    IN [dir |-> "tempfile.gettempdir()", name |-> filename]

Host == <<"h", "t", "t", "p", "s", ":", "/", "/", "g", ".", "c", "/">>

\* the repository URLs the program is run on
RepoUrls ==
    { Host \o <<"o", "/", "r">>,                      \* https://g.c/o/r
      Host \o <<"o", "/", "r">> \o DotGit,            \* https://g.c/o/r.git
      Host \o <<"p", "/", "r", "/">>,                 \* https://g.c/p/r/
      Host \o <<"o", "/", "s">> }                     \* https://g.c/o/s

\* the names tempfile.mkdtemp may return: any that does not exist
TmpNames == 1..(IF MaxTasks > MaxCli THEN MaxTasks ELSE MaxCli)

\* path.write_text: the file now holds what this invocation wrote
write_text(files, path, by) ==
    { f \in files : f.path # path } \cup { [path |-> path, by |-> by] }

\* shutil.rmtree(tmpdir, ignore_errors=True) leaving the directory in place
rmtree_Keeps(dirs, d) == dirs

\* shutil.rmtree(tmpdir, ignore_errors=True)
rmtree(dirs, d) == dirs \ {d}

\* main up to the try: the output path is derived and the directory made
main_start(i) ==
    /\ cli[i].pc = "idle"
    /\ \E url \in RepoUrls, d \in TmpNames \ temp :
          /\ cli' = [cli EXCEPT ![i] = [pc |-> "try", url |-> url,
                                        out |-> derive_temp_output_path(url), tmpdir |-> d]]
          /\ temp' = temp \cup {d}
    /\ UNCHANGED <<pipeVars, bh, processing_status, thread, client, output>>

\* main's try block runs to the write of the artifact
main_write(i) ==
    /\ cli[i].pc = "try"
    /\ output' = write_text(output, cli[i].out, [cli |-> i])
    /\ cli' = [cli EXCEPT ![i].pc = "finally"]
    /\ UNCHANGED <<pipeVars, bh, processing_status, thread, client, temp>>

\* the clone, the scan or the assembly raises
main_raises(i) ==
    /\ cli[i].pc = "try"
    /\ cli' = [cli EXCEPT ![i].pc = "finally"]
    /\ UNCHANGED <<pipeVars, bh, processing_status, thread, client, temp, output>>

\* main's finally, and the end of the process
main_finally(i) ==
    /\ cli[i].pc = "finally"
    /\ temp' = rmtree(temp, cli[i].tmpdir)
    /\ cli' = [cli EXCEPT ![i] = [pc |-> "done"]]
    /\ UNCHANGED <<pipeVars, bh, processing_status, thread, client, output>>

NextCli ==
    \E i \in CliIds : main_start(i) \/ main_write(i) \/ main_raises(i) \/ main_finally(i)

\* the pipeline at rest on an empty tree
PipelineAtRest ==
    /\ fs = << >> /\ max_bytes = MAX_DEFAULT_BYTES /\ tree_env = "utility"
    /\ pc = "start" /\ infos = << >> /\ doc = NoDoc /\ prev = NoRun /\ run = 1
    /\ view = NoView

InitCli == PipelineAtRest /\ Outside

SpecCli == InitCli /\ [][NextCli]_vars

----------------------------------------------------------------------------
(* The web application *)

\* task_id in processing_status
Known(t) == t \in DOMAIN processing_status

\* processing_status[task_id] = {'status': status, ...}
SetStatus(t, status) == processing_status' = (t :> status) @@ processing_status

\* POST /process with a valid URL: a new task id, its thread started, the id
\* returned to the client
process(t) ==
    /\ thread[t].pc = "unstarted"
    /\ thread' = [thread EXCEPT ![t].pc = "started"]
    /\ client' = [client EXCEPT ![t].returned = TRUE]
    /\ UNCHANGED <<pipeVars, bh, processing_status, temp, output, cli>>

\* GET /status/<task_id> by the client that was given the id
status(t) ==
    /\ client[t].returned
    /\ client' = [client EXCEPT ![t].not_found = @ \/ ~Known(t)]
    /\ UNCHANGED <<pipeVars, bh, processing_status, thread, temp, output, cli>>

\* process_repo's first statement
process_repo_begin(t) ==
    /\ thread[t].pc = "started"
    /\ SetStatus(t, "cloning")
    /\ thread' = [thread EXCEPT ![t].pc = "mkdtemp"]
    /\ UNCHANGED <<pipeVars, bh, client, temp, output, cli>>

\* tmpdir = tempfile.mkdtemp(...)
process_repo_mkdtemp(t) ==
    /\ thread[t].pc = "mkdtemp"
    /\ \E d \in TmpNames \ temp :
          /\ thread' = [thread EXCEPT ![t] = [pc |-> "clone", tmpdir |-> d]]
          /\ temp' = temp \cup {d}
    /\ UNCHANGED <<pipeVars, bh, processing_status, client, output, cli>>

\* git_clone returns
process_repo_clone(t) ==
    /\ thread[t].pc = "clone"
    /\ SetStatus(t, "scanning")
    /\ thread' = [thread EXCEPT ![t].pc = "scan"]
    /\ UNCHANGED <<pipeVars, bh, client, temp, output, cli>>

\* git_head_commit and collect_files return
process_repo_scan(t) ==
    /\ thread[t].pc = "scan"
    /\ SetStatus(t, "generating")
    /\ thread' = [thread EXCEPT ![t].pc = "generate"]
    /\ UNCHANGED <<pipeVars, bh, client, temp, output, cli>>

\* build_html returns and the artifact is written to output/<task_id>.html
process_repo_generate(t) ==
    /\ thread[t].pc = "generate"
    /\ output' = write_text(output, [dir |-> "output", name |-> t], [web |-> t])
    /\ SetStatus(t, "complete")
    /\ thread' = [thread EXCEPT ![t].pc = "finally"]
    /\ UNCHANGED <<pipeVars, bh, client, temp, cli>>

\* a statement of the try block raises: either except clause stores the error
process_repo_except(t) ==
    /\ thread[t].pc \in {"mkdtemp", "clone", "scan", "generate"}
    /\ SetStatus(t, "error")
    /\ thread' = [thread EXCEPT ![t].pc = "finally"]
    /\ UNCHANGED <<pipeVars, bh, client, temp, output, cli>>

\* process_repo's finally, and its return: its local variables are gone
process_repo_finally(t) ==
    /\ thread[t].pc = "finally"
    /\ temp' = IF thread[t].tmpdir # 0 /\ thread[t].tmpdir \in temp
               THEN rmtree(temp, thread[t].tmpdir) ELSE temp
    /\ thread' = [thread EXCEPT ![t] = [pc |-> "done", tmpdir |-> 0]]
    /\ UNCHANGED <<pipeVars, bh, processing_status, client, output, cli>>

\* the steps of the background thread of a task
process_repo(t) ==
    \/ process_repo_begin(t) \/ process_repo_mkdtemp(t) \/ process_repo_clone(t)
    \/ process_repo_scan(t) \/ process_repo_generate(t) \/ process_repo_except(t)
    \/ process_repo_finally(t)

\* cleanup_old_files meets the artifact of a task, older than a day
cleanup_old_files(t) ==
    /\ \E f \in output : f.path = [dir |-> "output", name |-> t]
    /\ output' = { f \in output : f.path # [dir |-> "output", name |-> t] }
    /\ processing_status' = [u \in DOMAIN processing_status \ {t} |-> processing_status[u]]
    /\ client' = [client EXCEPT ![t].removed = TRUE]
    /\ UNCHANGED <<pipeVars, bh, thread, temp, cli>>

NextWeb == \E t \in TaskIds : process(t) \/ status(t) \/ process_repo(t) \/ cleanup_old_files(t)

InitWeb == PipelineAtRest /\ Outside

SpecWeb == InitWeb /\ [][NextWeb]_vars

\* every started thread keeps being scheduled
SpecWebFair == SpecWeb /\ \A t \in TaskIds : WF_vars(process_repo(t))

----------------------------------------------------------------------------
(* Vocabulary of the properties *)

Collected == pc \in {"collected", "built"}

Built == pc = "built"

RecordIdx == 1..Len(infos)

\* the file a record was made from
FileOf(k) == fs[infos[k].path]

ReasonOf(k) == infos[k].decision.reason

CountReason(r) == Cardinality({ k \in RecordIdx : ReasonOf(k) = r })

\* the path lies under a directory named .git
UnderGitDir(path) == \E j \in 1..(Len(path) - 1) : path[j] = DotGit

\* some component of the path, the file's own name included, is .git
HasGitComponent(path) == \E j \in 1..Len(path) : path[j] = DotGit

\* the file has a NUL byte among its first 8192 bytes
NulInPrefix(f) == f.nul >= 0 /\ f.nul < ChunkSize

\* the index in infos of the k-th record whose reason is ok
KthOk(k) ==
    CHOOSE j \in RecordIdx :
        /\ ReasonOf(j) = "ok"
        /\ Cardinality({ h \in 1..(j - 1) : ReasonOf(h) = "ok" }) = k - 1

RECURSIVE SumOkSizes(_)
SumOkSizes(n) ==
    IF n = 0 THEN 0
    ELSE (IF ReasonOf(n) = "ok" THEN infos[n].size ELSE 0) + SumOkSizes(n - 1)

\* the indices of the records of reason r, in record order
RECURSIVE IdxOfReason(_, _)
IdxOfReason(r, n) ==
    IF n = 0 THEN << >>
    ELSE IF ReasonOf(n) = r THEN Append(IdxOfReason(r, n - 1), n) ELSE IdxOfReason(r, n - 1)

\* what a skip-list group of reason r has to list
ItemsOfReason(r) ==
    LET idx == IdxOfReason(r, Len(infos))
    IN [ k \in 1..Len(idx) |->
           [code |-> html_escape(infos[idx[k]].rel), size |-> bytes_human(infos[idx[k]].size)] ]

GroupsListing(r) == { g \in 1..Len(doc.skipped) : doc.skipped[g].lis = ItemsOfReason(r) }

----------------------------------------------------------------------------
(* C1 *)

\* C1: every record carries one reason of {ok, binary, too_large, ignored},
\* and its include flag is true exactly when that reason is ok.
C1_OneReasonIncludeIffOk ==
    Collected =>
        \A k \in RecordIdx :
            /\ ReasonOf(k) \in Reasons
            /\ infos[k].decision.include <=> (ReasonOf(k) = "ok")

C1_Witness ==
    /\ pc = "collected"
    /\ Len(infos) = 1
    /\ infos[1].decision = [include |-> FALSE, reason |-> "binary"]
    /\ FileOf(1).bad = 0

----------------------------------------------------------------------------
(* C2 *)

\* C2 as stated: the checks apply in the order ignored, too_large, binary, ok,
\* and a file is ignored exactly when its path lies under a .git directory.
C2_IgnoredIffUnderGitDir ==
    Collected =>
        \A k \in RecordIdx :
            /\ ReasonOf(k) =
                 (IF UnderGitDir(infos[k].path) THEN "ignored"
                  ELSE IF infos[k].size > max_bytes THEN "too_large"
                  ELSE IF looks_binary(infos[k].path) THEN "binary"
                  ELSE "ok")
            /\ (ReasonOf(k) = "ignored") <=> UnderGitDir(infos[k].path)

\* C2 amended: the checks apply in the order ignored, too_large, binary, ok,
\* and a file is ignored exactly when some component of its relative path is
\* .git: a directory above it, or the file's own name.
C2_Precedence ==
    Collected =>
        \A k \in RecordIdx :
            /\ ReasonOf(k) =
                 (IF HasGitComponent(infos[k].path) THEN "ignored"
                  ELSE IF infos[k].size > max_bytes THEN "too_large"
                  ELSE IF looks_binary(infos[k].path) THEN "binary"
                  ELSE "ok")
            /\ (ReasonOf(k) = "ignored") <=> HasGitComponent(infos[k].path)

\* a large file with a NUL byte under .git is ignored
C2_Witness ==
    /\ pc = "collected"
    /\ Len(infos) = 1
    /\ UnderGitDir(infos[1].path)
    /\ infos[1].size > max_bytes
    /\ NulInPrefix(FileOf(1))
    /\ ReasonOf(1) = "ignored"

----------------------------------------------------------------------------
(* C3 *)

\* C3: a file that is not ignored and whose stat succeeds is never too_large
\* at exactly max_bytes bytes (it is ok unless the binary check flags it) and
\* is always too_large at max_bytes + 1 bytes.
C3_ThresholdBoundary ==
    Collected =>
        \A k \in RecordIdx :
            (ReasonOf(k) # "ignored" /\ ~FileOf(k).vanished) =>
                /\ FileOf(k).size = max_bytes =>
                      /\ ReasonOf(k) # "too_large"
                      /\ (ReasonOf(k) = "ok") <=> ~looks_binary(infos[k].path)
                /\ FileOf(k).size = max_bytes + 1 => ReasonOf(k) = "too_large"

C3_Witness ==
    /\ pc = "collected"
    /\ max_bytes = MAX_DEFAULT_BYTES
    /\ Len(infos) = 1
    /\ FileOf(1).size = max_bytes
    /\ ReasonOf(1) = "ok"

----------------------------------------------------------------------------
(* C4 *)

\* C4 as stated: any discovered file with a NUL byte in its first 8192 bytes
\* is classified binary.
C4_NulAlwaysBinary ==
    Collected =>
        \A k \in RecordIdx :
            (NulInPrefix(FileOf(k)) /\ ~FileOf(k).vanished) => ReasonOf(k) = "binary"

\* C4 amended: a discovered file with a NUL byte in its first 8192 bytes that
\* is neither under version-control metadata nor larger than the threshold is
\* classified binary, whatever its extension.
C4_NulBinaryUnlessIgnoredOrLarge ==
    Collected =>
        \A k \in RecordIdx :
            ( /\ NulInPrefix(FileOf(k))
              /\ ~FileOf(k).vanished
              /\ ~HasGitComponent(infos[k].path)
              /\ FileOf(k).size <= max_bytes ) => ReasonOf(k) = "binary"

\* a text-named file whose only NUL is the last byte of the first 8192
C4_Witness ==
    /\ pc = "collected"
    /\ Len(infos) = 1
    /\ Suffix(infos[1].path[Len(infos[1].path)]) = << >>
    /\ FileOf(1).nul = ChunkSize - 1
    /\ FileOf(1).bad = -1
    /\ FileOf(1).readable
    /\ ReasonOf(1) = "binary"

----------------------------------------------------------------------------
(* C5 *)

\* C5: Total Files is the number of all records, ignored ones included, and
\* the sum of the four per-reason counts; Rendered is the number of ok
\* records; Skipped is the number of binary plus too_large records, ignored
\* ones not counted; Total Size is the sum of the sizes of the ok records.
C5_Stats ==
    Built =>
        /\ doc.stats.total_files = Len(infos)
        /\ doc.stats.total_files = CountReason("ok") + CountReason("binary")
                                   + CountReason("too_large") + CountReason("ignored")
        /\ doc.stats.rendered = CountReason("ok")
        /\ doc.stats.skipped = CountReason("binary") + CountReason("too_large")
        /\ doc.stats.total_size = bytes_human(SumOkSizes(Len(infos)))

\* an artifact of an ok, a skipped and an ignored record
C5_Witness ==
    /\ Built
    /\ CountReason("ok") = 1
    /\ CountReason("ignored") = 1
    /\ CountReason("too_large") = 1
    /\ doc.stats.skipped = 1
    /\ doc.stats.total_files = 3

----------------------------------------------------------------------------
(* C6 *)

\* C6: the export has one entry per ok record and none for any other; the
\* entries are numbered 1..n, the k-th entry declares the relative path of
\* the k-th ok record, and the k-th TOC entry and the k-th section are those
\* of the same file; also when the read of an included file fails.
C6_ExportEntries ==
    Built =>
        /\ Len(doc.cxml) = CountReason("ok")
        /\ Len(doc.toc) = Len(doc.cxml)
        /\ Len(doc.sections) = Len(doc.cxml)
        /\ \A k \in 1..Len(doc.cxml) :
              /\ doc.cxml[k].index = k
              /\ doc.cxml[k].source = infos[KthOk(k)].rel
              /\ doc.toc[k].text = html_escape(doc.cxml[k].source)
              /\ doc.sections[k].id = FilePrefix \o slugify(doc.cxml[k].source)

\* an export of two entries, the first a failure notice
C6_Witness ==
    /\ Built
    /\ Len(doc.cxml) = 2
    /\ Len(infos) = 3
    /\ doc.cxml[1].content = "Failed to read"
    /\ doc.cxml[2].content = "text"

----------------------------------------------------------------------------
(* C7 *)

\* C7 as stated: the records are in lexicographic order of their relative
\* path strings.
C7_StringOrder ==
    Collected =>
        \A j \in RecordIdx, k \in RecordIdx :
            j < k => StrLess(infos[j].rel, infos[k].rel)

\* C7 amended: the records are in lexicographic order of their paths'
\* component lists, each component compared as a string, so that a/b comes
\* before a-b.
C7_ComponentOrder ==
    Collected =>
        \A j \in RecordIdx, k \in RecordIdx :
            j < k =>
                \E n \in 1..Len(infos[j].path) :
                    /\ n <= Len(infos[k].path)
                    /\ SubSeq(infos[j].path, 1, n - 1) = SubSeq(infos[k].path, 1, n - 1)
                    /\ StrLess(infos[j].path[n], infos[k].path[n])

\* a/b is listed before a-b
C7_Witness ==
    /\ pc = "collected"
    /\ \E j \in RecordIdx, k \in RecordIdx :
          /\ j < k
          /\ infos[j].rel = <<"a", "/", "b">>
          /\ infos[k].rel = <<"a", "-", "b">>

----------------------------------------------------------------------------
(* C8 *)

\* C8: two included files get distinct anchors, so every TOC link targets
\* exactly one section.
C8_AnchorsUnique ==
    Built =>
        /\ \A j \in 1..Len(doc.toc), k \in 1..Len(doc.toc) :
              j # k => doc.toc[j].href # doc.toc[k].href
        /\ \A j \in 1..Len(doc.toc) :
              Cardinality({ n \in 1..Len(doc.sections) :
                              <<"#">> \o doc.sections[n].id = doc.toc[j].href }) = 1

----------------------------------------------------------------------------
(* C9 *)

\* C9 as stated: each of binary, too_large and ignored has a skip-list group
\* exactly when it has a record.
C9_GroupPerNonOkReason ==
    Built =>
        \A r \in {"binary", "too_large", "ignored"} :
            (CountReason(r) >= 1) <=> (GroupsListing(r) # {})

\* C9 amended: the artifact has one skip-list group for each of binary and
\* too_large that has a record, listing every record of that reason with its
\* relative path and human size, no group for a reason without records, and
\* no group for the ignored records.
C9_GroupPerSkippedReason ==
    Built =>
        /\ \A r \in {"binary", "too_large"} :
              Cardinality(GroupsListing(r)) = (IF CountReason(r) >= 1 THEN 1 ELSE 0)
        /\ Len(doc.skipped) = Cardinality({ r \in {"binary", "too_large"} : CountReason(r) >= 1 })
        /\ \A g \in 1..Len(doc.skipped) :
              /\ doc.skipped[g].count = Len(doc.skipped[g].lis)
              /\ doc.skipped[g].lis # ItemsOfReason("ignored")

\* binary, too_large and ignored records, and two groups
C9_Witness ==
    /\ Built
    /\ CountReason("binary") = 1
    /\ CountReason("too_large") = 1
    /\ CountReason("ignored") = 1
    /\ Len(doc.skipped) = 2

----------------------------------------------------------------------------
(* C10 *)

\* C10: a second run on the same tree and threshold yields the same records,
\* TOC, skip lists and stats as the first, however the entries are enumerated.
C10_RerunSame ==
    prev.ran =>
        /\ Collected => infos = prev.infos
        /\ Built =>
              /\ doc.toc = prev.toc
              /\ doc.skipped = prev.skipped
              /\ doc.stats = prev.stats

C10_Witness ==
    /\ prev.ran
    /\ Built
    /\ Len(infos) = 3
    /\ Len(doc.toc) = 2
    /\ Len(doc.skipped) = 1

----------------------------------------------------------------------------
(* C11 *)

\* C11: once the page is loaded, and after any clicks on the two toggle
\* buttons, exactly one of the human view and the LLM view is visible; before
\* any click it is the human view.
C11_OneViewVisible ==
    view.loaded =>
        /\ Visible("human-view") # Visible("llm-view")
        /\ view.clicks = 0 => Visible("human-view")

\* the LLM view shown, then the human view again
C11_Witness ==
    /\ view.loaded
    /\ view.clicks >= 2
    /\ view.style["llm-view"] = "none"
    /\ Visible("human-view")

----------------------------------------------------------------------------
(* C12 *)

\* C12: collect_files followed by build_html never returns a document when
\* classification yielded no record.
C12_NoDocumentWithoutRecords == Built => Len(infos) >= 1

----------------------------------------------------------------------------
(* C13 *)

\* C13: whatever stat or read of a file fails with, collect_files does not
\* abort and returns a record for every regular file; a file whose stat
\* failed is recorded with size 0, and an unreadable file that is neither
\* ignored nor too large is binary.
C13_TraversalNeverAborts ==
    pc # "start" =>
        /\ pc # "collect_failed"
        /\ Collected =>
              /\ \A p \in DOMAIN fs :
                    fs[p].kind = "file" => \E k \in RecordIdx : infos[k].path = p
              /\ \A k \in RecordIdx :
                    /\ (FileOf(k).vanished \/ FileOf(k).denied) => infos[k].size = 0
                    /\ (~FileOf(k).readable /\ ReasonOf(k) \notin {"ignored", "too_large"})
                          => ReasonOf(k) = "binary"

----------------------------------------------------------------------------
(* C14 *)

\* C14: once collect_files has returned at least one record, build_html
\* completes and returns a document, whatever the tree utility and the
\* fallback tree builder do, and the document has a section for every included
\* file.
C14_AssemblyCompletes ==
    (pc \in {"built", "build_failed"} /\ Len(infos) >= 1) =>
        /\ Built
        /\ Len(doc.sections) = Len(Rendered(infos))
        /\ \A k \in 1..Len(doc.sections) :
              doc.sections[k].id = FilePrefix \o slugify(Rendered(infos)[k].rel)

----------------------------------------------------------------------------
(* C15 *)

\* the document's tree comes from the fallback builder
FallbackTree == Built /\ doc.tree.by = "generate_tree_fallback"

TreeLines == doc.tree.lines

\* the root's line is at depth -1, the entries of the root at depth 0
LineDepth(i) == IF i = 1 THEN -1 ELSE Len(TreeLines[i].prefix)

\* the line of the directory a line's entry sits in: the nearest line above
\* it that is one level less deep
ParentLine(i) ==
    CHOOSE j \in 1..(i - 1) :
        /\ LineDepth(j) = LineDepth(i) - 1
        /\ \A k \in (j + 1)..(i - 1) : LineDepth(k) # LineDepth(i) - 1

\* the relative path of the entry a line names
RECURSIVE LinePath(_)
LinePath(i) == IF i = 1 THEN << >> ELSE Append(LinePath(ParentLine(i)), TreeLines[i].name)

EntryLines == 2..Len(TreeLines)

SiblingLines(i, j) == i < j /\ ParentLine(i) = ParentLine(j)

\* every entry outside a .git is listed once, under its directory, and
\* nothing named .git is listed
TreeListsEntries ==
    /\ \A i \in EntryLines : LinePath(i) \in Entries /\ TreeLines[i].name # DotGit
    /\ \A e \in Entries :
          (\A k \in 1..Len(e) : e[k] # DotGit)
              => Cardinality({ i \in EntryLines : LinePath(i) = e }) = 1

\* within a level, names go up when compared with their case folded
TreeNamesOrdered ==
    \A i \in EntryLines, j \in EntryLines :
        (SiblingLines(i, j) /\ is_dir(LinePath(i)) = is_dir(LinePath(j)))
            => StrLess(Lower(TreeLines[i].name), Lower(TreeLines[j].name))

\* the last entry of a level has the corner connector, the others the tee
TreeConnectors ==
    \A i \in EntryLines :
        TreeLines[i].branch =
            IF \E j \in EntryLines : SiblingLines(i, j) THEN "TEE" ELSE "ELBOW"

\* the entries of a directory are indented by four spaces more than it when
\* it is the last of its level, by a bar and three spaces otherwise
TreeIndentation ==
    \A i \in EntryLines :
        LET up == ParentLine(i)
        IN IF up = 1 THEN TreeLines[i].prefix = << >>
           ELSE TreeLines[i].prefix =
                    Append(TreeLines[up].prefix,
                           IF TreeLines[up].branch = "ELBOW" THEN "BLANK" ELSE "PIPE")

\* C15 as stated: in the fallback tree, every level lists its files before
\* its directories, each group by case-folded name, nothing named .git is
\* listed, and connectors and indentation follow the position in the level.
C15_FilesBeforeDirs ==
    FallbackTree =>
        /\ TreeListsEntries /\ TreeNamesOrdered /\ TreeConnectors /\ TreeIndentation
        /\ \A i \in EntryLines, j \in EntryLines :
              SiblingLines(i, j) => (~is_dir(LinePath(i)) \/ is_dir(LinePath(j)))

\* C15: in the fallback tree, every level lists its directories before its
\* other entries, each group by case-folded name, nothing named .git is
\* listed, the last entry of a level has the corner connector and the others
\* the tee, and the entries of a directory are indented by four spaces when
\* the directory is the last of its level and by a bar and three spaces
\* otherwise.
C15_DirsBeforeFiles ==
    FallbackTree =>
        /\ TreeListsEntries /\ TreeNamesOrdered /\ TreeConnectors /\ TreeIndentation
        /\ \A i \in EntryLines, j \in EntryLines :
              SiblingLines(i, j) => (is_dir(LinePath(i)) \/ ~is_dir(LinePath(j)))

\* a listing with two directories whose order depends on case, a file after
\* them, a .git left out, and both kinds of indentation
C15_Witness ==
    /\ FallbackTree
    /\ \E i \in EntryLines, j \in EntryLines, k \in EntryLines :
          /\ SiblingLines(i, j) /\ SiblingLines(j, k)
          /\ is_dir(LinePath(i)) /\ is_dir(LinePath(j)) /\ ~is_dir(LinePath(k))
          /\ StrLess(TreeLines[j].name, TreeLines[i].name)
    /\ \E e \in Entries : Name(e) = DotGit
    /\ \E i \in EntryLines : TreeLines[i].prefix = <<"PIPE", "BLANK">>

----------------------------------------------------------------------------
(* C16 *)

\* the 0-based index of a unit
UnitNo(u) == (CHOOSE k \in 1..Len(Units) : Units[k] = u) - 1

\* the printed number in tenths
Tenths(out) == 10 * out.whole + out.tenth

\* what bytes_human printed is a bytes count: the integer, no decimal
PrintedBytes == bh.out = [whole |-> bh.n, tenth |-> -1, unit |-> "B"]

\* what bytes_human printed is n in the first 1024-based unit that brings it
\* below 1024, to the nearest tenth
PrintedScaled ==
    LET i == UnitNo(bh.out.unit)
    IN /\ i >= 1
       /\ Pow1024(i) <= bh.n
       /\ i < Len(Units) - 1 => bh.n < 1024 * Pow1024(i)
       /\ bh.out.tenth \in 0..9
       /\ 2 * (10 * bh.n - Tenths(bh.out) * Pow1024(i)) <= Pow1024(i)
       /\ 2 * (Tenths(bh.out) * Pow1024(i) - 10 * bh.n) <= Pow1024(i)

QuotedExamples ==
    /\ bh.n = 0 => bh.out = [whole |-> 0, tenth |-> -1, unit |-> "B"]
    /\ bh.n = 1024 => bh.out = [whole |-> 1, tenth |-> 0, unit |-> "KiB"]
    /\ bh.n = 1536 => bh.out = [whole |-> 1, tenth |-> 5, unit |-> "KiB"]
    /\ bh.n = 1048576 => bh.out = [whole |-> 1, tenth |-> 0, unit |-> "MiB"]

\* C16 as stated: bytes_human prints the integer and B below 1024, and from
\* 1024 on the value in the first unit that brings it below 1024, with one
\* decimal; the printed number is always below 1024 for a unit under TiB.
C16_PrintedBelow1024 ==
    bh.called =>
        /\ IF bh.n < 1024 THEN PrintedBytes ELSE PrintedScaled
        /\ QuotedExamples
        /\ bh.out.unit # "TiB" => bh.out.whole < 1024

\* C16: bytes_human prints the integer and B below 1024, and from 1024 on the
\* value in the first unit that brings it below 1024, rounded to one decimal;
\* the value before rounding is below 1024 for a unit under TiB, so the
\* printed number is at most 1024.0.
C16_PrintedAtMost1024 ==
    bh.called =>
        /\ IF bh.n < 1024 THEN PrintedBytes ELSE PrintedScaled
        /\ QuotedExamples
        /\ bh.out.unit # "TiB" => Tenths(bh.out) <= 10240

\* a size one byte short of 1 MiB is printed as 1024.0 KiB
C16_Witness ==
    /\ bh.called
    /\ bh.n = 1048575
    /\ bh.out = [whole |-> 1024, tenth |-> 0, unit |-> "KiB"]

----------------------------------------------------------------------------
(* C17 *)

\* the invocations under way: web tasks whose thread runs, command-line runs
\* between the making of their directory and its removal
Running ==
    { [web |-> t] : t \in { u \in TaskIds : thread[u].pc \notin {"unstarted", "done"} } }
    \cup { [cli |-> i] : i \in { j \in CliIds : cli[j].pc \in {"try", "finally"} } }

IsWeb(inv) == "web" \in DOMAIN inv

WorkDir(inv) == IF IsWeb(inv) THEN thread[inv.web].tmpdir ELSE cli[inv.cli].tmpdir

ArtifactPath(inv) ==
    IF IsWeb(inv) THEN [dir |-> "output", name |-> inv.web] ELSE cli[inv.cli].out

\* C17: any two invocations under way at the same time have different
\* working directories and write different artifact files, so that no file
\* holds what another invocation than its own wrote.
C17_Isolated ==
    \A a \in Running, b \in Running :
        a # b =>
            /\ (WorkDir(a) # 0 /\ WorkDir(b) # 0) => WorkDir(a) # WorkDir(b)
            /\ ArtifactPath(a) # ArtifactPath(b)

----------------------------------------------------------------------------
(* C18 *)

\* C18: a GET /status for a task id that POST /process has returned never
\* answers 'Task not found', unless cleanup has removed the task.
C18_StatusFindsTask ==
    \A t \in TaskIds : client[t].not_found => client[t].removed

----------------------------------------------------------------------------
(* C19 *)

StatusOf(t) == IF Known(t) THEN processing_status[t] ELSE "absent"

\* the moves of a task's status: forward along the pipeline, or to error from
\* a status that is not final; cleanup_old_files takes a completed task away
StatusMoves ==
    { <<"absent", "cloning">>, <<"cloning", "scanning">>, <<"scanning", "generating">>,
      <<"generating", "complete">>,
      <<"cloning", "error">>, <<"scanning", "error">>, <<"generating", "error">>,
      <<"complete", "absent">> }

\* a step changes a status by one of the moves only, and the step that ends
\* process_repo leaves no temporary directory of the task
LifecycleStep ==
    \A t \in TaskIds :
        /\ StatusOf(t)' # StatusOf(t) => <<StatusOf(t), StatusOf(t)'>> \in StatusMoves
        /\ (thread[t].pc # "done" /\ thread'[t].pc = "done") => thread[t].tmpdir \notin temp'

====
